---- MODULE Spec2Model ----
(***************************************************************************)
(* A model of fat16dir.py: a read-only lister of FAT16 directories.        *)
(*                                                                         *)
(* The device is a byte array.  On top of it the program has BChain (a     *)
(* list of blocks read as one byte range), get_dirents (the decoder of a   *)
(* directory's 32-byte slots, long names included), get_clist (the FAT     *)
(* chain walk) and ls_path/_ls_path (path resolution over a cache of       *)
(* directory BChains).  Bytes are numbers 0..255, byte strings are         *)
(* sequences of bytes, Python's None is the number None.                   *)
(***************************************************************************)
EXTENDS Integers, Sequences, FiniteSets, TLC

VARIABLES
    dev,        \* the device f: [len, data], data a function offset -> byte
    written,    \* SpecLfn: the long name written to the device, and the order
                \*   of its slots on the disk
    chain,      \* the BChain a read is issued on: [blist, bsize, boffs]
    rd,         \* the frame of BChain.read: [pos, size, buf, log, pc]
    br,         \* the boot record: the parsed fields and the derived offsets
    gc,         \* the frame of get_clist: [de, c, clist, lookups, full, pc]
    gd,         \* the frame of get_dirents: [i, de_list, cur_lfn_parts,
                \*   cur_lfn_cksum, cur_lfn_maxnum, cur_lfn_offs, pc]
    opts,       \* the options: [size], "none" for None
    dir_cache,  \* the directory cache: a function path -> BChain
    args,       \* the paths listed so far, in order
    out,        \* what each of them printed: a sequence of lines per path
    walks,      \* the directory paths whose chain _ls_path walked, per path
    pc          \* where __main__ is: "boot", "paths", or the error that ended it

vars == <<dev, written, chain, rd, br, gc, gd, opts, dir_cache, args, out, walks, pc>>

\* the variables of __main__ and of path resolution
mainvars == <<opts, dir_cache, args, out, walks, pc>>

(***************************************************************************)
(* Bounds of the model.                                                    *)
(***************************************************************************)
MaxBlocks == 2      \* a BChain of SpecRead has at most this many blocks
MaxBsize == 3       \* and blocks of at most this many bytes
MaxCluster == 4     \* the FATs of SpecWalk link the clusters 2 .. MaxCluster
MaxClist == 6       \* a cluster list is kept exactly up to this length
MaxSlots == 3       \* the directories of SpecDir have this many slots
MaxArgs == 2        \* a run of SpecPath lists at most this many paths
MaxNameLen == 27    \* the long names of SpecLfn have at most this many code units

(***************************************************************************)
(* Python values.                                                          *)
(***************************************************************************)
None == -1

Min(a, b) == IF a < b THEN a ELSE b

\* struct.unpack('<H', b)[0]
U16LE(b) == b[1] + 256 * b[2]

\* struct.unpack('<I', b)[0], kept as its low and high 16 bits: the value
\* can pass the largest integer the model checker computes with
U32LE(b) == <<b[1] + 256 * b[2], b[3] + 256 * b[4]>>

\* a 32-bit value below 65536
U32(n) == <<n, 0>>

\* x & m != 0 for a mask m of one bit
BitSet(x, m) == (x \div m) % 2 = 1

\* str.rstrip(): the trailing whitespace bytes go
Whitespace == {9, 10, 11, 12, 13, 32}

RECURSIVE rstrip(_)
rstrip(b) ==
    IF b # <<>> /\ b[Len(b)] \in Whitespace THEN rstrip(SubSeq(b, 1, Len(b) - 1))
    ELSE b

\* All sequences over S of length at most n
SeqsUpTo(S, n) == UNION {[1 .. k -> S] : k \in 0 .. n}

(***************************************************************************)
(* The device.  A byte the image does not set reads as zero (a hole of a   *)
(* sparse image); a read at or past len hits the end of the file.          *)
(***************************************************************************)
DevByte(d, o) == IF o \in DOMAIN d.data THEN d.data[o] ELSE 0

\* A test pattern whose bytes differ between neighbouring offsets and blocks.
Pattern(o) == (37 * o + (o \div 256) + 11) % 256

PatternDev(len) == [len |-> len, data |-> [o \in 0 .. len - 1 |-> Pattern(o)]]

(***************************************************************************)
(* class BChain                                                            *)
(***************************************************************************)
BChain(blist, bsize, boffs) == [blist |-> blist, bsize |-> bsize, boffs |-> boffs]

\* __len__
BChain_len(ch) == Len(ch.blist) * ch.bsize

\* offs(pos); blist is 0-based in the source, 1-based here
BChain_offs(ch, pos) ==
    ch.boffs + ch.blist[(pos \div ch.bsize) + 1] * ch.bsize + (pos % ch.bsize)

\* _read without the clipping to the end of the block
BChain__read_unclipped(ch, d, pos, size) ==
    LET n == pos \div ch.bsize
        p == pos % ch.bsize
    IN  IF n >= Len(ch.blist)
        THEN [err |-> "IndexError", buf |-> <<>>]
        ELSE LET o == ch.boffs + ch.blist[n + 1] * ch.bsize + p
             IN  IF size > 0 /\ o + size > d.len
                 THEN [err |-> "IOError", buf |-> <<>>]
                 ELSE [err |-> "", buf |-> [k \in 1 .. size |-> DevByte(d, o + k - 1)]]

\* _read(pos, size): one bounded read, clipped to the end of the block that
\* holds pos.  The inner loop repeats f.read until the clipped size is there
\* or f.read returns '' (the end of the file), so its result is the bytes
\* o .. o+size-1 of the device, or IOError when they are not all there.
BChain__read(ch, d, pos, size) ==
    LET n == pos \div ch.bsize
        p == pos % ch.bsize
    IN  IF n >= Len(ch.blist)
        THEN [err |-> "IndexError", buf |-> <<>>]
        ELSE LET o == ch.boffs + ch.blist[n + 1] * ch.bsize + p
                 sz == IF p + size > ch.bsize THEN ch.bsize - p ELSE size
             IN  IF sz > 0 /\ o + sz > d.len
                 THEN [err |-> "IOError", buf |-> <<>>]
                 ELSE [err |-> "", buf |-> [k \in 1 .. sz |-> DevByte(d, o + k - 1)]]

\* read(pos, size): the loop of bounded reads, as a function
RECURSIVE ReadLoop(_, _, _, _, _)
ReadLoop(ch, d, pos, size, buf) ==
    IF Len(buf) >= size THEN [err |-> "", buf |-> buf]
    ELSE LET b == BChain__read(ch, d, pos + Len(buf), size - Len(buf))
         IN  IF b.err # "" THEN b
             ELSE IF b.buf = <<>> THEN [err |-> "IOError", buf |-> <<>>]
             ELSE ReadLoop(ch, d, pos, size, buf \o b.buf)

BChain_read(ch, d, pos, size) == ReadLoop(ch, d, pos, size, <<>>)

(***************************************************************************)
(* BChain.read as a state machine: one step per bounded read.              *)
(***************************************************************************)
NoChain == BChain(<<>>, 1, 0)

NoRead == [pos |-> 0, size |-> 0, buf |-> <<>>, log |-> <<>>, pc |-> "idle"]

ReadCall(pos, size) ==
    [pos |-> pos, size |-> size, buf |-> <<>>, log |-> <<>>, pc |-> "reading"]

\* one iteration of the while loop of read
ReadStep ==
    /\ rd.pc = "reading"
    /\ Len(rd.buf) < rd.size
    /\ LET at == rd.pos + Len(rd.buf)
           b == BChain__read(chain, dev, at, rd.size - Len(rd.buf))
       IN  rd' = IF b.err # "" THEN [rd EXCEPT !.pc = b.err]
                 ELSE IF b.buf = <<>> THEN [rd EXCEPT !.pc = "IOError"]
                 ELSE [rd EXCEPT !.buf = @ \o b.buf,
                                 !.log = Append(@, [pos |-> at, n |-> Len(b.buf)])]
    /\ UNCHANGED <<dev, written, chain, br, gc, gd, mainvars>>

\* the loop ends: return buf
ReadReturn ==
    /\ rd.pc = "reading"
    /\ Len(rd.buf) >= rd.size
    /\ rd' = [rd EXCEPT !.pc = "done"]
    /\ UNCHANGED <<dev, written, chain, br, gc, gd, mainvars>>

(***************************************************************************)
(* The boot record: parse(BR_DICT, br_buf) and the offsets __main__        *)
(* derives from it.                                                        *)
(***************************************************************************)
\* the first 512 bytes of the device: f.read(512)
ReadBootSector(d) == [k \in 1 .. Min(512, d.len) |-> DevByte(d, k - 1)]

\* parse(BR_DICT, buf); struct.unpack raises struct.error on a short buffer
ParseBR(buf) ==
    IF Len(buf) < 512 THEN [err |-> "struct.error"]
    ELSE [err |-> "",
          bps |-> U16LE(SubSeq(buf, 12, 13)),
          spc |-> buf[14],
          rsvd_sects |-> U16LE(SubSeq(buf, 15, 16)),
          n_fats |-> buf[17],
          rdents |-> U16LE(SubSeq(buf, 18, 19)),
          spf |-> U16LE(SubSeq(buf, 23, 24)),
          spt |-> U16LE(SubSeq(buf, 25, 26)),
          heads |-> U16LE(SubSeq(buf, 27, 28)),
          magic |-> U16LE(SubSeq(buf, 511, 512))]

BR_MAGIC == 43605

BpsAllowed == {256, 512, 2048}

\* the assertion on the signature alone
BRValid_anybps(b) == b.magic = 43605

\* the two assertions on the parsed record
BRValid(b) == b.magic = BR_MAGIC /\ b.bps \in BpsAllowed

\* the derived offsets; fatoffs[i] is br['fat%ioffs' % i].  The division by
\* bps raises ZeroDivisionError for bps = 0, which BRValid keeps out.
DeriveBR(b) ==
    IF b.bps = 0 THEN [err |-> "ZeroDivisionError"] ELSE
    LET bprd == b.rdents * 32
        sprd == (bprd + b.bps - 1) \div b.bps
        rd_offs == (b.rsvd_sects + b.n_fats * b.spf) * b.bps
        c2offs == rd_offs + sprd * b.bps
    IN  [err |-> "", bps |-> b.bps, spc |-> b.spc, rsvd_sects |-> b.rsvd_sects,
         n_fats |-> b.n_fats, rdents |-> b.rdents, spf |-> b.spf, spt |-> b.spt,
         heads |-> b.heads, magic |-> b.magic,
         fatoffs |-> [i \in 1 .. b.n_fats |-> b.rsvd_sects * b.bps + i * b.spf * b.bps],
         bprd |-> bprd, sprd |-> sprd, rd_offs |-> rd_offs,
         c2offs |-> c2offs, c0offs |-> c2offs - 2 * b.spc * b.bps]

\* the boot record __main__ ends up with, or the error that ends the run
BootRecord(d) ==
    LET b == ParseBR(ReadBootSector(d))
    IN  IF b.err # "" THEN b
        ELSE IF ~BRValid(b) THEN [err |-> "AssertionError"]
        ELSE DeriveBR(b)

NoBr == [err |-> "unset"]

\* the root directory's BChain, as __main__ puts it into the cache
RootBChain(b) == BChain(<<0>>, b.bprd, b.rd_offs)

(***************************************************************************)
(* get_clist(br, de): the FAT chain walk.                                  *)
(***************************************************************************)
EOC == 65527            \* 0xFFF7
MAXFIRST == 65528       \* 0xFFF8
FAT_SIG == <<248, 255, 255, 255>>

\* the BChain over the FAT the walk reads
Fat1BChain(b) == BChain(<<0>>, b.spf * b.bps, b.fatoffs[1])

NoWalk == [de |-> [type |-> "", size |-> U32(0), cluster |-> 0], c |-> 0,
           clist |-> <<>>, lookups |-> 0, full |-> FALSE, pc |-> "idle"]

WalkCall(de) == [NoWalk EXCEPT !.de = de, !.pc = "start"]

\* the part of get_clist before the loop: the checks, and c = de['cluster']
WalkEnter(b, d, g) ==
    IF g.de.type = "vol"
    THEN (IF g.de.size = U32(0) /\ g.de.cluster = 0
          THEN [g EXCEPT !.pc = "done"]
          ELSE [g EXCEPT !.pc = "AssertionError"])
    ELSE IF g.de.type \notin {"dir", "file"} THEN [g EXCEPT !.pc = "AssertionError"]
    ELSE IF ~(\/ g.de.cluster >= 2 /\ g.de.cluster <= MAXFIRST
              \/ g.de.size = U32(0) /\ g.de.cluster = 0)
         THEN [g EXCEPT !.pc = "AssertionError"]
    ELSE IF b.n_fats < 1 THEN [g EXCEPT !.pc = "KeyError"]
    ELSE LET sig == BChain_read(Fat1BChain(b), d, 0, 4)
         IN  IF sig.err # "" THEN [g EXCEPT !.pc = sig.err]
             ELSE IF sig.buf # FAT_SIG THEN [g EXCEPT !.pc = "AssertionError"]
             ELSE [g EXCEPT !.c = g.de.cluster, !.pc = "walk"]

\* the loop's condition without its lower limit
WalkCond_nolow(c) == c < EOC

\* the loop's condition
WalkCond(c) == c >= 2 /\ c < EOC

\* one iteration: clist.append(c), then c = the FAT's entry for c.  A list
\* of MaxClist clusters is kept as it is and marked full: the loop goes on,
\* its further lookups counted modulo 2.
WalkIter(b, d, g) ==
    LET nxt == BChain_read(Fat1BChain(b), d, g.c * 2, 2)
        app == IF Len(g.clist) < MaxClist
               THEN [g EXCEPT !.clist = Append(@, g.c), !.lookups = @ + 1]
               ELSE [g EXCEPT !.full = TRUE,
                              !.lookups = IF @ = MaxClist THEN MaxClist + 1
                                          ELSE MaxClist]
    IN  IF nxt.err # "" THEN [app EXCEPT !.pc = nxt.err]
        ELSE [app EXCEPT !.c = U16LE(nxt.buf)]

\* get_clist as a function; pc "hang" when the loop does not end
RECURSIVE WalkLoop(_, _, _)
WalkLoop(b, d, g) ==
    IF g.pc # "walk" THEN g
    ELSE IF g.full THEN [g EXCEPT !.pc = "hang"]
    ELSE IF WalkCond(g.c) THEN WalkLoop(b, d, WalkIter(b, d, g))
    ELSE [g EXCEPT !.pc = "done"]

get_clist(b, d, de) == WalkLoop(b, d, WalkEnter(b, d, WalkCall(de)))

\* get_clist as a state machine
WalkStart ==
    /\ gc.pc = "start"
    /\ gc' = WalkEnter(br, dev, gc)
    /\ UNCHANGED <<dev, written, chain, rd, br, gd, mainvars>>

WalkStep ==
    /\ gc.pc = "walk"
    /\ WalkCond(gc.c)
    /\ gc' = WalkIter(br, dev, gc)
    /\ UNCHANGED <<dev, written, chain, rd, br, gd, mainvars>>

WalkReturn ==
    /\ gc.pc = "walk"
    /\ ~WalkCond(gc.c)
    /\ gc' = [gc EXCEPT !.pc = "done"]
    /\ UNCHANGED <<dev, written, chain, rd, br, gd, mainvars>>

(***************************************************************************)
(* get_dirents(d_chain): the decoder of a directory's 32-byte slots.       *)
(***************************************************************************)
ATTR_MASK_LIST == <<<<"v", 8>>, <<"d", 16>>, <<"r", 1>>, <<"h", 2>>, <<"s", 4>>, <<"a", 32>>>>

ATTR_D == 16            \* ATTR2MASK_MAP['d']
LFN_FLAGS == 15         \* 0x0F
VOL_FLAGS == 8          \* 0x08
DELETED == 229          \* '\xe5'
LFN_LAST == 64          \* 0x40
LFN_MAXIDX == 20

\* parse(DENTRY_DICT, de_buf); the fields 'raw', 'nt' and 'lfn1' .. 'lfn3' of
\* de are read by nothing after the decoder and are left out of the record
ParseDentry(buf) ==
    [nam |-> SubSeq(buf, 1, 8),
     ext |-> SubSeq(buf, 9, 11),
     size |-> U32LE(SubSeq(buf, 29, 32)),
     cluster |-> U16LE(SubSeq(buf, 27, 28)),
     flags |-> buf[12],
     lfncksum |-> buf[14],
     lfnf |-> buf[1]]

\* de['lfn1'] + de['lfn2'] + de['lfn3']
LfnBytes(buf) == SubSeq(buf, 2, 11) \o SubSeq(buf, 15, 26) \o SubSeq(buf, 29, 32)

\* de['attrs']
Attrs(flags) ==
    [k \in 1 .. Len(ATTR_MASK_LIST) |->
        IF BitSet(flags, ATTR_MASK_LIST[k][2]) THEN ATTR_MASK_LIST[k][1] ELSE "-"]

\* a decoding that takes a zero low byte alone for the end of the name
RECURSIVE DecodeName_lowbyte(_, _)
DecodeName_lowbyte(namu, i) ==
    IF i >= Len(namu) \div 2 THEN <<>>
    ELSE LET l == namu[2 * i + 1]
             h == namu[2 * i + 2]
         IN  IF l = 0 THEN <<>>
             ELSE <<h * 256 + l>> \o DecodeName_lowbyte(namu, i + 1)

\* the loop that turns de['namu'] into de['name']: code units (h << 8) + l up
\* to the first pair of zero bytes
RECURSIVE DecodeName(_, _)
DecodeName(namu, i) ==
    IF i >= Len(namu) \div 2 THEN <<>>
    ELSE LET l == namu[2 * i + 1]
             h == namu[2 * i + 2]
         IN  IF l = 0 /\ h = 0 THEN <<>>
             ELSE <<h * 256 + l>> \o DecodeName(namu, i + 1)

\* "".join([cur_lfn_parts[k] for k in sorted(cur_lfn_parts.keys())])
RECURSIVE JoinParts(_, _)
JoinParts(parts, keys) ==
    IF keys = {} THEN <<>>
    ELSE LET k == CHOOSE x \in keys : \A y \in keys : x <= y
         IN  parts[k] \o JoinParts(parts, keys \ {k})

\* the 8.3 name of a slot with no long name
ShortName(de) ==
    IF rstrip(de.ext) # <<>> THEN rstrip(de.nam) \o <<46>> \o rstrip(de.ext)
    ELSE rstrip(de.nam)

NoParts == <<>>

NoScan == [i |-> 0, de_list |-> <<>>, cur_lfn_parts |-> NoParts, cur_lfn_cksum |-> None,
           cur_lfn_maxnum |-> None, cur_lfn_offs |-> None, pc |-> "idle"]

ScanCall == [NoScan EXCEPT !.pc = "scan"]

Fail(g, e) == [g EXCEPT !.pc = e]

\* a long-name slot whose deleted form is appended to de_list like a
\* terminal slot
LfnSlot_appended(g, de, buf) ==
    IF de.cluster # 0 THEN Fail(g, "AssertionError")
    ELSE IF de.nam[1] = 229
    THEN [g EXCEPT !.i = @ + 1, !.de_list = Append(@, [type |-> "deln"] @@ de)]
    ELSE LET lfni == IF BitSet(de.lfnf, 64) THEN de.lfnf - 64 ELSE de.lfnf
             maxnum == IF BitSet(de.lfnf, 64) THEN lfni ELSE g.cur_lfn_maxnum
         IN  IF ~(lfni > 0 /\ lfni <= 20 /\ (maxnum = None \/ lfni <= maxnum))
             THEN Fail(g, "AssertionError")
             ELSE [g EXCEPT !.i = @ + 1,
                            !.cur_lfn_maxnum = maxnum,
                            !.cur_lfn_parts = (lfni :> LfnBytes(buf)) @@ @,
                            !.cur_lfn_offs = IF @ = None THEN de.ofs ELSE @]

\* a long-name slot that records the offset of the last fragment scanned
\* instead of the first
LfnSlot_lastoffs(g, de, buf) ==
    IF de.cluster # 0 THEN Fail(g, "AssertionError")
    ELSE IF de.nam[1] = 229 THEN [g EXCEPT !.i = @ + 1]
    ELSE LET lfni == IF BitSet(de.lfnf, 64) THEN de.lfnf - 64 ELSE de.lfnf
             maxnum == IF BitSet(de.lfnf, 64) THEN lfni ELSE g.cur_lfn_maxnum
         IN  IF ~(lfni > 0 /\ lfni <= 20 /\ (maxnum = None \/ lfni <= maxnum))
             THEN Fail(g, "AssertionError")
             ELSE [g EXCEPT !.i = @ + 1,
                            !.cur_lfn_maxnum = maxnum,
                            !.cur_lfn_parts = (lfni :> LfnBytes(buf)) @@ @,
                            !.cur_lfn_offs = de.ofs]

\* a slot with flags 0x0F: a long-name slot
LfnSlot(g, de, buf) ==
    IF de.cluster # 0 THEN Fail(g, "AssertionError")
    ELSE IF de.nam[1] = DELETED THEN [g EXCEPT !.i = @ + 1]
    ELSE LET lfni == IF BitSet(de.lfnf, LFN_LAST) THEN de.lfnf - LFN_LAST ELSE de.lfnf
             maxnum == IF BitSet(de.lfnf, LFN_LAST) THEN lfni ELSE g.cur_lfn_maxnum
         IN  IF ~(lfni > 0 /\ lfni <= LFN_MAXIDX /\ (maxnum = None \/ lfni <= maxnum))
             THEN Fail(g, "AssertionError")
             ELSE IF ~(g.cur_lfn_cksum = None \/ g.cur_lfn_cksum = de.lfncksum)
             THEN Fail(g, "AssertionError")
             ELSE [g EXCEPT !.i = @ + 1,
                            !.cur_lfn_maxnum = maxnum,
                            !.cur_lfn_parts = (lfni :> LfnBytes(buf)) @@ @,
                            !.cur_lfn_offs = IF @ = None THEN de.ofs ELSE @]

\* the end of a slot with other flags, without the reset of the accumulator
Terminal_noreset(g, de) ==
    [g EXCEPT !.i = @ + 1, !.de_list = Append(@, de)]

\* the end of a slot with other flags: the accumulator is reset, de appended
Terminal(g, de) ==
    [g EXCEPT !.i = @ + 1,
              !.cur_lfn_parts = NoParts,
              !.cur_lfn_cksum = None,
              !.cur_lfn_maxnum = None,
              !.cur_lfn_offs = None,
              !.de_list = Append(@, de)]

\* a live slot: the long name when fragments are pending, else the 8.3 name
LiveSlot(g, de) ==
    LET type == IF BitSet(de.flags, ATTR_D) THEN "dir" ELSE "file"
    IN  IF DOMAIN g.cur_lfn_parts # {}
        THEN IF g.cur_lfn_maxnum # Cardinality(DOMAIN g.cur_lfn_parts)
             THEN Fail(g, "AssertionError")
             ELSE LET namu == JoinParts(g.cur_lfn_parts, DOMAIN g.cur_lfn_parts)
                  IN  Terminal(g, [name |-> DecodeName(namu, 0), type |-> type]
                                  @@ [de EXCEPT !.offs = g.cur_lfn_offs])
        ELSE Terminal(g, [name |-> ShortName(de), type |-> type] @@ de)

\* a slot with flags other than 0x0F, the test for a deleted entry put
\* before the test for a volume label
OtherSlot_delfirst(g, de) ==
    IF de.nam[1] = 229
    THEN Terminal(g, [type |-> IF BitSet(de.flags, 16) THEN "deld" ELSE "delf"] @@ de)
    ELSE IF de.flags = 8
    THEN Terminal(g, [name |-> rstrip(de.nam) \o rstrip(de.ext), type |-> "vol"] @@ de)
    ELSE LiveSlot(g, de)

\* a slot with flags other than 0x0F
OtherSlot(g, de) ==
    IF de.flags = VOL_FLAGS
    THEN Terminal(g, [name |-> rstrip(de.nam) \o rstrip(de.ext), type |-> "vol"] @@ de)
    ELSE IF de.nam[1] = DELETED
    THEN Terminal(g, [type |-> IF BitSet(de.flags, ATTR_D) THEN "deld" ELSE "delf"] @@ de)
    ELSE LiveSlot(g, de)

ZeroSlot == [k \in 1 .. 32 |-> 0]

\* an iteration that passes over an all-zero slot instead of stopping
DirentIter_nobreak(ch, d, g) ==
    LET r == BChain_read(ch, d, g.i * 32, 32)
    IN  IF r.err # "" THEN Fail(g, r.err)
        ELSE IF r.buf = [k \in 1 .. 32 |-> 0] THEN [g EXCEPT !.i = @ + 1]
        ELSE LET ofs == BChain_offs(ch, g.i * 32)
                 de == [ofs |-> ofs, offs |-> ofs, attrs |-> Attrs(r.buf[12])]
                       @@ ParseDentry(r.buf)
             IN  IF de.flags = 15 THEN LfnSlot(g, de, r.buf)
                 ELSE OtherSlot(g, de)

\* one iteration of the loop over the slots, for i < de_cnt
DirentIter(ch, d, g) ==
    LET r == BChain_read(ch, d, g.i * 32, 32)
    IN  IF r.err # "" THEN Fail(g, r.err)
        ELSE IF r.buf = ZeroSlot THEN [g EXCEPT !.pc = "done"]
        ELSE LET ofs == BChain_offs(ch, g.i * 32)
                 de == [ofs |-> ofs, offs |-> ofs, attrs |-> Attrs(r.buf[12])]
                       @@ ParseDentry(r.buf)
             IN  IF de.flags = LFN_FLAGS THEN LfnSlot(g, de, r.buf)
                 ELSE OtherSlot(g, de)

\* de_cnt = len(d_chain) / 32
DeCnt(ch) == BChain_len(ch) \div 32

\* get_dirents as a function
RECURSIVE ScanLoop(_, _, _)
ScanLoop(ch, d, g) ==
    IF g.pc # "scan" THEN g
    ELSE IF g.i < DeCnt(ch) THEN ScanLoop(ch, d, DirentIter(ch, d, g))
    ELSE [g EXCEPT !.pc = "done"]

get_dirents(ch, d) == ScanLoop(ch, d, ScanCall)

\* get_dirents as a state machine: one step per slot
ScanStep ==
    /\ gd.pc = "scan"
    /\ gd.i < DeCnt(chain)
    /\ gd' = DirentIter(chain, dev, gd)
    /\ UNCHANGED <<dev, written, chain, rd, br, gc, mainvars>>

ScanReturn ==
    /\ gd.pc = "scan"
    /\ gd.i >= DeCnt(chain)
    /\ gd' = [gd EXCEPT !.pc = "done"]
    /\ UNCHANGED <<dev, written, chain, rd, br, gc, mainvars>>

(***************************************************************************)
(* ls_dirents(br, de_list): the lines printed for a list of entries.       *)
(***************************************************************************)
\* the size column of a line
SizeColumn(o, b, de, clist) ==
    IF o.size = "bytes" THEN <<"bytes", de.size>>
    ELSE IF o.size = "clusters" THEN <<"clusters", Len(clist)>>
    ELSE IF o.size = "sectors" THEN <<"sectors", Len(clist) * b.spc>>
    ELSE <<>>

\* the values the print statement formats
Line(de, s) == [attrs |-> de.attrs, offs |-> de.offs, s |-> s, name |-> de.name]

\* [err, lines]: the lines printed, and the exception that ended the loop
RECURSIVE ls_dirents(_, _, _, _)
ls_dirents(b, d, o, de_list) ==
    IF de_list = <<>> THEN [err |-> "", lines |-> <<>>]
    ELSE LET de == Head(de_list)
         IN  IF de.type \in {"delf", "deld"} THEN ls_dirents(b, d, o, Tail(de_list))
             ELSE IF de.type \in {"lfn", "deln"} THEN ls_dirents(b, d, o, Tail(de_list))
             ELSE LET g == IF o.size \in {"clusters", "sectors"}
                           THEN get_clist(b, d, de)
                           ELSE [pc |-> "done", clist |-> <<>>]
                  IN  IF g.pc # "done" THEN [err |-> g.pc, lines |-> <<>>]
                      ELSE LET rest == ls_dirents(b, d, o, Tail(de_list))
                           IN  [err |-> rest.err,
                                lines |-> <<Line(de, SizeColumn(o, b, de, g.clist))>>
                                          \o rest.lines]

(***************************************************************************)
(* ls_path and _ls_path: path resolution over the directory cache.  A      *)
(* path is a sequence of character codes.                                  *)
(***************************************************************************)
SEP == 47               \* os.path.sep, '/'
DOT == 46               \* '.'

\* a join that puts no separator in
PathJoin_nosep(a, p) == a \o p

\* os.path.join(a, p) of posixpath
PathJoin(a, p) ==
    IF p # <<>> /\ p[1] = SEP THEN p
    ELSE IF a = <<>> \/ a[Len(a)] = SEP THEN a \o p
    ELSE a \o <<SEP>> \o p

\* str.split(os.path.sep)
RECURSIVE SplitFrom(_, _)
SplitFrom(str, cur) ==
    IF str = <<>> THEN <<cur>>
    ELSE IF str[1] = SEP THEN <<cur>> \o SplitFrom(Tail(str), <<>>)
    ELSE SplitFrom(Tail(str), Append(cur, str[1]))

Split(str) == SplitFrom(str, <<>>)

\* the state path resolution works on: the cache, the lines printed, the
\* directory paths whose chain was walked, the exception raised
Resolution(cache) == [cache |-> cache, lines |-> <<>>, walked |-> <<>>, err |-> ""]

\* the entries before the first one the loop of _ls_path returns on
RECURSIVE FirstMatch(_, _)
FirstMatch(de_list, p) ==
    IF de_list = <<>> THEN 0
    ELSE IF Head(de_list).type = "file" /\ Head(de_list).name = p THEN 1
    ELSE IF Head(de_list).type = "dir" /\ Head(de_list).name = p THEN 1
    ELSE LET k == FirstMatch(Tail(de_list), p) IN IF k = 0 THEN 0 ELSE k + 1

\* a cache that keeps the new directory alone
CacheInsert_only(cache, head, ch) == (head :> ch)

\* if path_head_str not in dir_cache: dir_cache[path_head_str] = de_cchain
CacheInsert(cache, head, ch) ==
    IF head \in DOMAIN cache THEN cache ELSE (head :> ch) @@ cache

Printed(st, r) == [st EXCEPT !.lines = @ \o r.lines, !.err = r.err]

RECURSIVE _ls_path(_, _, _, _, _, _)
_ls_path(b, d, o, st, path_head_str, path_tail_list) ==
    LET g == get_dirents(st.cache[path_head_str], d)
    IN  IF g.pc # "done" THEN [st EXCEPT !.err = g.pc]
        ELSE IF path_tail_list = <<>> THEN Printed(st, ls_dirents(b, d, o, g.de_list))
        ELSE LET p == Head(path_tail_list)
                 head == PathJoin(path_head_str, p)
                 k == FirstMatch(g.de_list, p)
             IN  IF k = 0
                 THEN [st EXCEPT !.lines = Append(@, [error |-> head])]
                 ELSE IF g.de_list[k].type = "file"
                 THEN Printed(st, ls_dirents(b, d, o, <<g.de_list[k]>>))
                 ELSE LET w == get_clist(b, d, g.de_list[k])
                          st1 == [st EXCEPT !.walked = Append(@, head)]
                      IN  IF w.pc # "done" THEN [st1 EXCEPT !.err = w.pc]
                          ELSE _ls_path(b, d, o,
                                   [st1 EXCEPT !.cache =
                                       CacheInsert(@, head,
                                           BChain(w.clist, b.spc * b.bps, b.c0offs))],
                                   head, Tail(path_tail_list))

\* the components ls_path hands to _ls_path, for a normalized path_str (on
\* which os.path.normpath and, on POSIX, os.path.normcase change nothing)
SplitPath(path_str) ==
    LET s0 == Split(path_str)
        s1 == IF s0[1] = <<>> THEN Tail(s0) ELSE s0
    IN  IF s1[Len(s1)] \in {<<>>, <<DOT>>} THEN SubSeq(s1, 1, Len(s1) - 1) ELSE s1

ls_path(b, d, o, cache, path_str) ==
    _ls_path(b, d, o, Resolution(cache), <<SEP>>, SplitPath(path_str))

(***************************************************************************)
(* __main__                                                                *)
(***************************************************************************)
NoCache == <<>>

NoName == [name |-> <<>>, order |-> <<>>]

MainIdle ==
    /\ written = NoName
    /\ opts = [size |-> "none"]
    /\ dir_cache = NoCache
    /\ args = <<>>
    /\ out = <<>>
    /\ walks = <<>>
    /\ pc = "idle"

\* the boot sector is read and checked, the root directory cached
Boot ==
    /\ pc = "boot"
    /\ br' = BootRecord(dev)
    /\ IF br'.err # ""
       THEN pc' = br'.err /\ dir_cache' = dir_cache
       ELSE pc' = "paths" /\ dir_cache' = (<<SEP>> :> RootBChain(br'))
    /\ UNCHANGED <<dev, written, chain, rd, gc, gd, opts, args, out, walks>>

\* _ls_path at the end of a path, once get_dirents has returned de_list:
\* return ls_dirents(br, de_list)
ListDir ==
    /\ pc = "dir"
    /\ gd.pc = "done"
    /\ LET r == ls_dirents(br, dev, opts, gd.de_list)
       IN  /\ out' = Append(out, r.lines)
           /\ pc' = IF r.err # "" THEN r.err ELSE "listed"
    /\ UNCHANGED <<dev, written, chain, rd, br, gc, gd, opts, dir_cache, args, walks>>

\* one round of the loop over args[1:], listing path; an exception ends the
\* run after the lines printed before it
LsPath(path) ==
    /\ pc = "paths"
    /\ Len(args) < MaxArgs
    /\ LET r == ls_path(br, dev, opts, dir_cache, path)
       IN  /\ dir_cache' = r.cache
           /\ out' = Append(out, r.lines)
           /\ walks' = Append(walks, r.walked)
           /\ pc' = IF r.err # "" THEN r.err ELSE "paths"
    /\ args' = Append(args, path)
    /\ UNCHANGED <<dev, written, chain, rd, br, gc, gd, opts>>

(***************************************************************************)
(* Device images.                                                          *)
(***************************************************************************)
Lo(v) == v % 256
Hi(v) == v \div 256

\* n bytes at offset o
BytesAt(o, bytes) == [k \in o .. o + Len(bytes) - 1 |-> bytes[k - o + 1]]

\* the fields of a boot sector
BootSectorBytes(bps, spc, rsvd, n_fats, rdents, spf, magic) ==
    BytesAt(11, <<Lo(bps), Hi(bps), spc, Lo(rsvd), Hi(rsvd), n_fats,
                  Lo(rdents), Hi(rdents)>>)
    @@ BytesAt(22, <<Lo(spf), Hi(spf)>>)
    @@ BytesAt(510, <<Lo(magic), Hi(magic)>>)

\* a FAT at offset o: the signature, then the entries of fat (cluster -> value)
RECURSIVE FatEntries(_, _, _)
FatEntries(o, fat, cs) ==
    IF cs = {} THEN <<>>
    ELSE LET c == CHOOSE x \in cs : TRUE
         IN  BytesAt(o + 2 * c, <<Lo(fat[c]), Hi(fat[c])>>)
             @@ FatEntries(o, fat, cs \ {c})

FatBytes(o, sig, fat) == BytesAt(o, sig) @@ FatEntries(o, fat, DOMAIN fat)

\* a short-name slot: DENTRY_DICT's nam, ext, flags, cluster and size (a size
\* below 65536)
Pad(b, n) == b \o [k \in 1 .. n - Len(b) |-> 32]

SfnSlot(nam, ext, flags, cluster, size) ==
    Pad(nam, 8) \o Pad(ext, 3) \o <<flags>> \o [k \in 1 .. 14 |-> 0]
    \o <<Lo(cluster), Hi(cluster)>>
    \o <<Lo(size), Hi(size), 0, 0>>

\* the bytes of code units, little-endian
RECURSIVE UnitBytes(_)
UnitBytes(u) == IF u = <<>> THEN <<>> ELSE <<Lo(u[1]), Hi(u[1])>> \o UnitBytes(Tail(u))

\* a long-name slot: the sequence byte, 13 code units, the checksum
LfnSlotBytes(seqb, units, cksum, cluster) ==
    LET b == UnitBytes(units)
    IN  <<seqb>> \o SubSeq(b, 1, 10) \o <<LFN_FLAGS, 0, cksum>> \o SubSeq(b, 11, 22)
        \o <<Lo(cluster), Hi(cluster)>> \o SubSeq(b, 23, 26)

\* a name's fragment: a zero code unit and 0xFFFF padding after a short one
PadUnits(u) ==
    IF Len(u) >= 13 THEN SubSeq(u, 1, 13)
    ELSE u \o <<0>> \o [k \in 1 .. 12 - Len(u) |-> 65535]

\* slots one after another from offset o
RECURSIVE SlotsAt(_, _)
SlotsAt(o, slots) ==
    IF slots = <<>> THEN <<>>
    ELSE BytesAt(o, slots[1]) @@ SlotsAt(o + 32, Tail(slots))

\* The geometry of the images: 256-byte sectors, one sector per cluster, two
\* reserved sectors, two FATs of one sector, a root directory of 8 slots.
\*   FAT 1 at 512, FAT 2 at 768, root directory at 1024, cluster 2 at 1280
GeomBoot == BootSectorBytes(256, 1, 2, 2, 8, 1, BR_MAGIC)

(***************************************************************************)
(* SpecRead: BChain.read on chains of a few small blocks and on the        *)
(* specification's example.                                                *)
(***************************************************************************)
\* The read of the specification's example: blocks 3, 7, 9 of 512 bytes
ExampleChain == BChain(<<3, 7, 9>>, 512, 0)

InitReadCases ==
    \/ /\ chain \in {BChain(bl, bs, bo) : bl \in SeqsUpTo(0 .. MaxBlocks, MaxBlocks),
                                          bs \in 1 .. MaxBsize, bo \in {0, 5}}
       /\ \E short \in {0, 2} :
            dev = PatternDev(chain.boffs + (MaxBlocks + 1) * chain.bsize - short)
       /\ \E pos \in 0 .. BChain_len(chain) + 1, size \in 0 .. BChain_len(chain) + 1 :
            /\ pos + size <= BChain_len(chain) + 1
            /\ rd = ReadCall(pos, size)
    \/ /\ chain = ExampleChain
       /\ dev = PatternDev(10 * 512)
       /\ rd = ReadCall(400, 600)

InitRead ==
    /\ InitReadCases
    /\ br = NoBr
    /\ gc = NoWalk
    /\ gd = NoScan
    /\ MainIdle

NextRead == ReadStep \/ ReadReturn

SpecRead == InitRead /\ [][NextRead]_vars

(***************************************************************************)
(* SpecWalk: get_clist on every FAT over the clusters 2 .. MaxCluster.     *)
(***************************************************************************)
FatVals == (2 .. MaxCluster) \cup {0, EOC - 1, EOC, 65535}

FirstClusters == (0 .. MaxCluster) \cup {5, EOC - 1, EOC, MAXFIRST, MAXFIRST + 1}

WalkDev(sig, fat) ==
    [len |-> 4096,
     data |-> GeomBoot @@ FatBytes(512, sig, fat) @@ FatBytes(768, sig, fat)]

\* the chain of the specification's example: 5 -> 6 -> 0xFFFF
ExampleFat == (5 :> 6) @@ (6 :> 65535)

InitWalk ==
    /\ \E fat \in [2 .. MaxCluster -> FatVals] \cup {ExampleFat} :
         \/ dev = WalkDev(FAT_SIG, fat)
         \/ /\ \A c \in DOMAIN fat : fat[c] = 65535
            /\ dev = WalkDev(<<240, 255, 255, 255>>, fat)
    /\ br = BootRecord(dev)
    /\ \E t \in {"file", "dir", "vol"}, sz \in {0, 1}, c \in FirstClusters :
         /\ t = "vol" => c \in {0, 2}
         /\ gc = WalkCall([type |-> t, size |-> U32(sz), cluster |-> c])
    /\ chain = NoChain
    /\ rd = NoRead
    /\ gd = NoScan
    /\ MainIdle

NextWalk == WalkStart \/ WalkStep \/ WalkReturn

SpecWalk == InitWalk /\ [][NextWalk]_vars

\* the loop is not suspended: a step that can be taken is taken
SpecWalkFair == SpecWalk /\ WF_vars(NextWalk)

(***************************************************************************)
(* SpecDir: get_dirents on the root directory, its MaxSlots slots drawn    *)
(* from one slot of each kind.                                             *)
(***************************************************************************)
\* two checksum bytes
CkA == 16 + 1
CkB == 32 + 2
Frag1 == <<108, 111, 110, 103, 45, 110, 97, 109, 101, 45, 111, 110, 101>>   \* "long-name-one"
Frag2 == <<46, 116, 120, 116>>                                             \* ".txt"

SlotKinds ==
    { ZeroSlot,
      SfnSlot(<<65>>, <<84, 88, 84>>, 32, 3, 5),          \* file A.TXT
      SfnSlot(<<68>>, <<>>, 16, 2, 0),                    \* directory D
      SfnSlot(<<86, 79, 76>>, <<>>, 8, 0, 0),             \* volume label VOL
      SfnSlot(<<229, 66>>, <<>>, 32, 4, 7),               \* deleted file
      SfnSlot(<<229, 69>>, <<>>, 16, 4, 0),               \* deleted directory
      SfnSlot(<<229, 76>>, <<>>, 8, 0, 0),                \* label that starts 0xE5
      LfnSlotBytes(65, PadUnits(<<120>>), CkA, 0),        \* index 1, last
      LfnSlotBytes(1, PadUnits(Frag1), CkA, 0),           \* index 1
      LfnSlotBytes(66, PadUnits(Frag2), CkA, 0),          \* index 2, last
      LfnSlotBytes(66, PadUnits(Frag2), CkB, 0),          \* index 2, last, other checksum
      LfnSlotBytes(3, PadUnits(<<122>>), CkA, 0),         \* index 3
      LfnSlotBytes(229, PadUnits(<<120>>), CkA, 0),       \* deleted long-name slot
      LfnSlotBytes(64, PadUnits(<<120>>), CkA, 0),        \* index 0, last
      LfnSlotBytes(21, PadUnits(<<120>>), CkA, 0),        \* index 21
      LfnSlotBytes(65, PadUnits(<<120>>), CkA, 7) }       \* a first cluster

\* a device with a root directory of n slots: its boot sector alone
DirBoot(n) ==
    [len |-> 4096, data |-> BootSectorBytes(256, 1, 2, 2, n, 1, BR_MAGIC)]

DirDev(slots) ==
    [len |-> 4096,
     data |-> DirBoot(Len(slots)).data
              @@ FatBytes(512, FAT_SIG, <<>>) @@ FatBytes(768, FAT_SIG, <<>>)
              @@ SlotsAt(1024, slots)]

\* ls_path("/") at its call of get_dirents
InitDir ==
    /\ \E slots \in [1 .. MaxSlots -> SlotKinds] : dev = DirDev(slots)
    /\ br = BootRecord(DirBoot(MaxSlots))      \* the boot sector of dev
    /\ chain = RootBChain(br)
    /\ gd = ScanCall
    /\ rd = NoRead
    /\ gc = NoWalk
    /\ written = NoName
    /\ opts = [size |-> "none"]
    /\ dir_cache = (<<SEP>> :> chain)
    /\ args = <<<<SEP>>>>
    /\ out = <<>>
    /\ walks = <<>>
    /\ pc = "dir"

NextDir == ScanStep \/ ScanReturn \/ ListDir

SpecDir == InitDir /\ [][NextDir]_vars

(***************************************************************************)
(* SpecLfn: get_dirents on a directory that holds one long name, written   *)
(* as the claim on the round trip says.                                    *)
(***************************************************************************)
\* the code unit at place i of a test name: ASCII letters, or units with a
\* zero low byte, a zero high byte, both bytes 0xFF
TestUnit(p, i) ==
    IF p = 1 THEN 97 + (i % 26)
    ELSE IF i % 4 = 0 THEN 256
    ELSE IF i % 4 = 1 THEN 65535
    ELSE IF i % 4 = 2 THEN 255
    ELSE 8364

\* a test name of n code units with a zero code unit at place z (none for 0)
TestName(p, n, z) == [i \in 1 .. n |-> IF i = z THEN 0 ELSE TestUnit(p, i)]

\* k = ceil(len / 13)
SlotCount(name) == (Len(name) + 12) \div 13

\* the long-name slot with index i of name
NameSlot(name, i) ==
    LfnSlotBytes(IF i = SlotCount(name) THEN i + LFN_LAST ELSE i,
                 PadUnits(SubSeq(name, 13 * (i - 1) + 1, Min(13 * i, Len(name)))),
                 CkA, 0)

\* the slots of name in the order given, then its short-name slot
NameSlots(name, order) ==
    [j \in 1 .. Len(order) |-> NameSlot(name, order[j])]
    \o <<SfnSlot(<<76, 79, 78, 71, 78, 65, 126, 49>>, <<84, 88, 84>>, 32, 3, 1)>>

Orders(k) == {f \in [1 .. k -> 1 .. k] : \A a, b \in 1 .. k : f[a] = f[b] => a = b}

\* slots that come before the name: a deleted file and a live one
LeadSlots(n) ==
    [j \in 1 .. n |-> IF j = n THEN SfnSlot(<<65>>, <<84, 88, 84>>, 32, 3, 5)
                      ELSE SfnSlot(<<229, 66>>, <<>>, 32, 4, 7)]

\* the name in a root directory of just its slots, or after 6 slots in a
\* directory of the clusters 4 and 2, where its slots lie in both clusters
InitLfn ==
    /\ \E p \in {1, 2}, n \in 1 .. MaxNameLen :
         \E z \in 0 .. n, order \in Orders((n + 12) \div 13) :
            /\ written = [name |-> TestName(p, n, z), order |-> order]
            /\ \/ /\ dev = DirDev(NameSlots(written.name, order))
                  /\ chain = RootBChain(BootRecord(dev))
               \/ /\ p = 2
                  /\ dev = [len |-> 4096,
                            data |-> GeomBoot
                                     @@ SlotsAt(1792, LeadSlots(6))
                                     @@ SlotsAt(1984, SubSeq(NameSlots(written.name, order), 1, 2))
                                     @@ SlotsAt(1280, SubSeq(NameSlots(written.name, order), 3,
                                                             Len(order) + 1))]
                  /\ chain = BChain(<<4, 2>>, 256, 768)
    /\ br = BootRecord(dev)
    /\ gd = ScanCall
    /\ rd = NoRead
    /\ gc = NoWalk
    /\ opts = [size |-> "none"]
    /\ dir_cache = (<<SEP>> :> chain)
    /\ args = <<<<SEP>>>>
    /\ out = <<>>
    /\ walks = <<>>
    /\ pc = "dir"

SpecLfn == InitLfn /\ [][NextDir]_vars

(***************************************************************************)
(* SpecPath: runs of __main__ over small volumes.                          *)
(*   FAT 1 at 512, FAT 2 at 768, root directory at 1024 (8 slots),         *)
(*   cluster c at 768 + 256 * c                                            *)
(***************************************************************************)
FileTxt == <<102, 105, 108, 101, 46, 116, 120, 116>>      \* "file.txt"

\* A volume with the tree /A/B/file.txt:
\*   /    the label DISK, the directory A, the file F.TXT, a deleted file
\*   /A   ., .., the directory B, the empty file G
\*   /A/B file.txt (a long name over FILE~1.TXT), in the chain 3 -> 5
TreeDev ==
    [len |-> 4096,
     data |-> GeomBoot
        @@ FatBytes(512, FAT_SIG, (2 :> 65535) @@ (3 :> 5) @@ (4 :> 65535)
                                   @@ (5 :> 65535) @@ (6 :> 65535))
        @@ FatBytes(768, FAT_SIG, (2 :> 65535) @@ (3 :> 5) @@ (4 :> 65535)
                                   @@ (5 :> 65535) @@ (6 :> 65535))
        @@ SlotsAt(1024, << SfnSlot(<<68, 73, 83, 75>>, <<>>, 8, 0, 0),
                            SfnSlot(<<65>>, <<>>, 16, 2, 0),
                            SfnSlot(<<70>>, <<84, 88, 84>>, 32, 6, 3),
                            SfnSlot(<<229, 79, 76, 68>>, <<>>, 32, 4, 9) >>)
        @@ SlotsAt(1280, << SfnSlot(<<46>>, <<>>, 16, 2, 0),
                            SfnSlot(<<46, 46>>, <<>>, 16, 0, 0),
                            SfnSlot(<<66>>, <<>>, 16, 3, 0),
                            SfnSlot(<<71>>, <<>>, 32, 0, 0) >>)
        @@ SlotsAt(1536, << LfnSlotBytes(65, PadUnits(FileTxt), CkA, 0),
                            SfnSlot(<<70, 73, 76, 69, 126, 49>>, <<84, 88, 84>>, 32, 4, 10) >>)]

\* A damaged volume: the chain of /L is the cycle 2 -> 3 -> 2, the first
\* cluster of /X is 1
DamagedDev ==
    [len |-> 4096,
     data |-> GeomBoot
        @@ FatBytes(512, FAT_SIG, (2 :> 3) @@ (3 :> 2))
        @@ FatBytes(768, FAT_SIG, (2 :> 3) @@ (3 :> 2))
        @@ SlotsAt(1024, << SfnSlot(<<76>>, <<>>, 16, 2, 0),
                            SfnSlot(<<88>>, <<>>, 16, 1, 0),
                            SfnSlot(<<70>>, <<84, 88, 84>>, 32, 0, 0) >>)]

\* A device that is no FAT volume: the boot signature is missing
BlankDev == [len |-> 4096, data |-> BootSectorBytes(256, 1, 2, 2, 8, 1, 0)]

\* the paths given on the command line, all normalized
Paths ==
    { <<47>>,                                                       \* "/"
      <<47, 65>>,                                                   \* "/A"
      <<47, 65, 47, 66>>,                                           \* "/A/B"
      <<47, 65, 47, 66, 47, 102, 105, 108, 101, 46, 116, 120, 116>>,\* "/A/B/file.txt"
      <<47, 65, 47, 109, 105, 115, 115, 105, 110, 103>>,            \* "/A/missing"
      <<47, 109, 105, 115, 115, 105, 110, 103, 47, 120, 47, 121>>,  \* "/missing/x/y"
      <<47, 70, 46, 84, 88, 84>>,                                   \* "/F.TXT"
      <<47, 70, 46, 84, 88, 84, 47, 101, 120, 116, 114, 97>>,       \* "/F.TXT/extra"
      <<47, 76>>,                                                   \* "/L"
      <<47, 88>>,                                                   \* "/X"
      <<65, 47, 66>>,                                               \* "A/B"
      <<46>> }                                                      \* "."

InitPath ==
    /\ dev \in {TreeDev, DamagedDev, BlankDev}
    /\ opts \in {[size |-> x] : x \in {"none", "bytes", "clusters", "sectors"}}
    /\ written = NoName
    /\ br = NoBr
    /\ dir_cache = NoCache
    /\ args = <<>>
    /\ out = <<>>
    /\ walks = <<>>
    /\ pc = "boot"
    /\ chain = NoChain
    /\ rd = NoRead
    /\ gc = NoWalk
    /\ gd = NoScan

NextPath == Boot \/ \E path \in Paths : LsPath(path)

SpecPath == InitPath /\ [][NextPath]_vars

(***************************************************************************)
(* SpecBoot: __main__ on devices whose boot sector has its fields drawn    *)
(* from small sets, valid and not; the rest of the device reads as zeros.  *)
(***************************************************************************)
BootMagics == {BR_MAGIC, 21930, 0}          \* 0xAA55, 0x55AA, 0
BootBps == {0, 256, 512, 1024, 2048}
BootSpc == {1, 2, 128}
BootRsvd == {1, 2}
BootNFats == {0, 1, 2}
BootRdents == {0, 1, 16}
BootSpf == {0, 1, 2}
BootLens == {300, 512, 4096}

InitBoot ==
    /\ \E magic \in BootMagics, bps \in BootBps, spc \in BootSpc, rsvd \in BootRsvd,
          n_fats \in BootNFats, rdents \in BootRdents, spf \in BootSpf,
          len \in BootLens :
         dev = [len |-> len,
                data |-> BootSectorBytes(bps, spc, rsvd, n_fats, rdents, spf, magic)]
    /\ opts = [size |-> "none"]
    /\ written = NoName
    /\ br = NoBr
    /\ dir_cache = NoCache
    /\ args = <<>>
    /\ out = <<>>
    /\ walks = <<>>
    /\ pc = "boot"
    /\ chain = NoChain
    /\ rd = NoRead
    /\ gc = NoWalk
    /\ gd = NoScan

\* the run lists the root directory
NextBoot == Boot \/ LsPath(<<SEP>>)

SpecBoot == InitBoot /\ [][NextBoot]_vars

(***************************************************************************)
(* All of the above in one specification.                                  *)
(***************************************************************************)
Init == InitRead \/ InitWalk \/ InitDir \/ InitLfn \/ InitPath \/ InitBoot

Next == NextRead \/ NextWalk \/ NextDir \/ NextPath \/ NextBoot

Spec == Init /\ [][Next]_vars

(***************************************************************************)
(* The claims.                                                             *)
(***************************************************************************)
\* the claim's absolute_offset(pos), written out
AbsOffset(ch, pos) ==
    ch.boffs + ch.blist[(pos \div ch.bsize) + 1] * ch.bsize + (pos % ch.bsize)

\* C1: a read(pos, size) with pos + size <= length() whose bytes are all on
\* the device returns exactly size bytes, the i-th of them the device's byte
\* at absolute_offset(pos + i).
C1_ReadBytes ==
    (/\ rd.pc \notin {"idle", "reading"}
     /\ rd.pos + rd.size <= Len(chain.blist) * chain.bsize
     /\ \A i \in 0 .. rd.size - 1 : AbsOffset(chain, rd.pos + i) < dev.len)
    => /\ rd.pc = "done"
       /\ Len(rd.buf) = rd.size
       /\ \A i \in 0 .. rd.size - 1 :
            rd.buf[i + 1] = dev.data[AbsOffset(chain, rd.pos + i)]

\* C1's case: the example's read has returned block-3[400:512] and then
\* block-7[0:488]
C1_Witness ==
    /\ chain = ExampleChain
    /\ rd.pc = "done"
    /\ rd.buf = [k \in 1 .. 600 |->
                   IF k <= 112 THEN Pattern(3 * 512 + 400 + k - 1)
                   ELSE Pattern(7 * 512 + k - 113)]

\* the FAT's entry for cluster c, read off the device
FatNext(c) ==
    DevByte(dev, br.fatoffs[1] + 2 * c) + 256 * DevByte(dev, br.fatoffs[1] + 2 * c + 1)

\* C2: a walk from a first cluster in [2, 0xFFF7) that returns has the
\* clusters c0, next(c0), ... in order, all in [2, 0xFFF7), cut just before
\* the first value >= 0xFFF7 or < 2, and has made one lookup per cluster.
C2_ChainWalk ==
    (/\ gc.pc = "done"
     /\ gc.de.type \in {"file", "dir"}
     /\ gc.de.cluster >= 2 /\ gc.de.cluster < 65527)
    => /\ ~gc.full
       /\ Len(gc.clist) >= 1
       /\ gc.clist[1] = gc.de.cluster
       /\ \A i \in 1 .. Len(gc.clist) - 1 : gc.clist[i + 1] = FatNext(gc.clist[i])
       /\ \A i \in 1 .. Len(gc.clist) : gc.clist[i] >= 2 /\ gc.clist[i] < 65527
       /\ LET end == FatNext(gc.clist[Len(gc.clist)]) IN end >= 65527 \/ end < 2
       /\ gc.lookups = Len(gc.clist)

\* C2's case: the chain 5 -> 6 -> 0xFFFF has been walked
C2_Witness ==
    /\ gc.pc = "done"
    /\ gc.de.cluster = 5
    /\ FatNext(5) = 6 /\ FatNext(6) = 65535
    /\ gc.clist = <<5, 6>>
    /\ gc.lookups = 2

\* byte j (from 0) of slot k of the root directory, read off the device
SlotByte(k, j) == DevByte(dev, br.rd_offs + 32 * k + j)

\* slot k is a long-name slot; a live one
IsLfnSlot(k) == SlotByte(k, 11) = 15
IsLiveLfnSlot(k) == IsLfnSlot(k) /\ SlotByte(k, 0) # 229

\* the slots j < k are long-name slots of one pending name: no terminal slot
\* lies from j to k
SamePending(j, k) == \A m \in j .. k : IsLfnSlot(m)

\* the scan has passed slots 0 .. n-1 without failing
ScannedOk(n) == gd.pc \in {"scan", "done"} /\ gd.i >= n

\* C5: a live long-name slot whose checksum differs from that of a fragment
\* of the same pending name makes the scan fail.
C5_ChecksumMismatchFails ==
    \A j, k \in 0 .. MaxSlots - 1 :
        (/\ j < k
         /\ IsLiveLfnSlot(j) /\ IsLiveLfnSlot(k)
         /\ SamePending(j, k)
         /\ SlotByte(j, 13) # SlotByte(k, 13))
        => ~ScannedOk(k + 1)

\* C8 as stated: get_dirents returns only File, Dir and VolumeLabel entries.
C8_OnlyListable ==
    gd.pc = "done" =>
        \A k \in 1 .. Len(gd.de_list) : gd.de_list[k].type \in {"file", "dir", "vol"}

\* the entries of l that ls_dirents prints, as (offs, name)
RECURSIVE Listable(_)
Listable(l) ==
    IF l = <<>> THEN <<>>
    ELSE IF Head(l).type \in {"file", "dir", "vol"}
         THEN <<[offs |-> Head(l).offs, name |-> Head(l).name]>> \o Listable(Tail(l))
         ELSE Listable(Tail(l))

\* C8 as amended: get_dirents returns File, Dir, VolumeLabel, deleted-file
\* and deleted-directory entries, none of them from a long-name slot, live
\* or deleted, and a deleted one only from a slot that starts 0xE5;
\* ls_dirents prints the File, Dir and VolumeLabel entries alone.
C8_DeletedReturnedNotListed ==
    /\ gd.pc = "done" =>
         \A k \in 1 .. Len(gd.de_list) :
            LET e == gd.de_list[k]
            IN  /\ e.type \in {"file", "dir", "vol", "delf", "deld"}
                /\ DevByte(dev, e.ofs + 11) # 15
                /\ e.type \in {"delf", "deld"} => DevByte(dev, e.ofs) = 229
    /\ pc = "listed" =>
         [k \in 1 .. Len(out[1]) |-> [offs |-> out[1][k].offs, name |-> out[1][k].name]]
            = Listable(gd.de_list)

\* C8's case: a deleted file is in the returned list, after a deleted
\* long-name slot was scanned, and the listing has the one live file
C8_Witness ==
    /\ pc = "listed"
    /\ Len(gd.de_list) = 2
    /\ gd.de_list[1].type = "delf"
    /\ gd.de_list[2].type = "file"
    /\ IsLfnSlot(0) /\ ~IsLiveLfnSlot(0)
    /\ Len(out[1]) = 1

\* the first all-zero slot of the root directory, MaxSlots when there is none
RECURSIVE FirstZeroFrom(_)
FirstZeroFrom(k) ==
    IF k >= MaxSlots THEN MaxSlots
    ELSE IF \A j \in 0 .. 31 : SlotByte(k, j) = 0 THEN k
    ELSE FirstZeroFrom(k + 1)

FirstZero == FirstZeroFrom(0)

\* the device with every byte from the root directory's slot k on set to zero
ZeroedFrom(k) ==
    [dev EXCEPT !.data = [o \in {x \in DOMAIN dev.data : x < br.rd_offs + 32 * k} |->
                             dev.data[o]]]

\* C10: the scan stops at the first all-zero slot: it never passes it, no
\* entry comes from a slot at or after it, the outcome (the list or the error)
\* is that of the same directory with every later slot zero, and a directory
\* whose first slot is all-zero has the empty listing.
C10_StopsAtTerminator ==
    LET z == FirstZero
    IN  /\ gd.i <= z
        /\ \A k \in 1 .. Len(gd.de_list) : gd.de_list[k].ofs < br.rd_offs + 32 * z
        /\ (gd.pc # "scan" /\ pc = "dir" /\ z < MaxSlots) =>
             LET g == get_dirents(chain, ZeroedFrom(z))
             IN  g.pc = gd.pc /\ g.de_list = gd.de_list
        /\ (gd.pc # "scan" /\ z = 0) => (gd.pc = "done" /\ gd.de_list = <<>>)
        /\ (pc = "listed" /\ z = 0) => out = <<<<>>>>

\* C10's case: the first slot is all-zero, a later slot holds a long-name
\* slot with the index 21, and the listing is empty
C10_Witness ==
    /\ FirstZero = 0
    /\ \E k \in 1 .. MaxSlots - 1 : IsLiveLfnSlot(k) /\ SlotByte(k, 0) = 21
    /\ gd.pc = "done"
    /\ pc = "listed"
    /\ out = <<<<>>>>

\* name up to its first zero code unit
RECURSIVE Truncated(_)
Truncated(name) ==
    IF name = <<>> \/ name[1] = 0 THEN <<>>
    ELSE <<name[1]>> \o Truncated(Tail(name))

\* C6: a long name written as k = ceil(len / 13) slots with the indices
\* 1 .. k, the k-th flagged, in any order before a live short-name slot,
\* comes back as the name of that slot's entry, cut at its first zero code
\* unit.
C6_LongNameRoundTrip ==
    (written # NoName /\ gd.pc # "scan")
    => /\ gd.pc = "done"
       /\ gd.de_list # <<>>
       /\ LET e == gd.de_list[Len(gd.de_list)]
          IN  /\ e.type = "file"
              /\ e.nam = <<76, 79, 78, 71, 78, 65, 126, 49>>
              /\ e.name = Truncated(written.name)

\* C6's case: a name of three slots, written in the order 2, 3, 1 across two
\* clusters, has been read back in full
C6_Witness ==
    /\ gd.pc = "done"
    /\ Len(written.name) = 27
    /\ written.order = <<2, 3, 1>>
    /\ chain.blist = <<4, 2>>
    /\ gd.de_list[Len(gd.de_list)].name = written.name
    /\ \E i \in 1 .. 27 : written.name[i] = 256

\* path has the element x
Has(seq, x) == \E i \in 1 .. Len(seq) : seq[i] = x

\* C3: once a directory path is in the cache, a later ls_path that passes
\* through it does not walk the directory's FAT chain again.
C3_NoRepeatedWalk ==
    \A j, k \in 1 .. Len(walks) :
        \A P \in DOMAIN dir_cache :
            (j < k /\ Has(walks[j], P)) => ~Has(walks[k], P)

\* "/" and the first i of the components comps, joined by "/"
RECURSIVE PrefixPath(_, _)
PrefixPath(comps, i) ==
    IF i = 0 THEN <<47>>
    ELSE IF i = 1 THEN <<47>> \o comps[1]
    ELSE PrefixPath(comps, i - 1) \o <<47>> \o comps[i]

\* the first File or Dir entry of the list l with the name p
RECURSIVE FirstNamed(_, _)
FirstNamed(l, p) ==
    IF l = <<>> THEN [type |-> "none"]
    ELSE IF Head(l).type \in {"file", "dir"} /\ Head(l).name = p THEN Head(l)
    ELSE FirstNamed(Tail(l), p)

\* the entry that component i of comps names in the directory reached by
\* the components before it
Named(comps, i) ==
    FirstNamed(get_dirents(dir_cache[PrefixPath(comps, i - 1)], dev).de_list, comps[i])

\* the first i components each name a directory in the directory reached
\* so far
RECURSIVE Reached(_, _)
Reached(comps, i) ==
    /\ PrefixPath(comps, 0) \in DOMAIN dir_cache
    /\ i > 0 => /\ Reached(comps, i - 1)
                /\ Named(comps, i).type = "dir"
                /\ PrefixPath(comps, i) \in DOMAIN dir_cache

\* the k-th ls_path returned
Returned(k) == k < Len(args) \/ pc = "paths"

IsEntryLine(line) == "name" \in DOMAIN line

\* C4: a path with components left after one that names a file is an error:
\* no entry is listed for it.
C4_FileThenMoreIsError ==
    \A k \in 1 .. Len(args) :
        LET comps == SplitPath(args[k])
        IN  \A i \in 1 .. Len(comps) - 1 :
                (Reached(comps, i - 1) /\ Named(comps, i).type = "file")
                => \A n \in 1 .. Len(out[k]) : ~IsEntryLine(out[k][n])

\* C7: a path of directories that ends in a file prints that file's entry
\* and nothing else; a path whose component i is the first to name no File
\* or Dir entry prints the not-found error for the prefix that ends at
\* component i, and no entry.
C7_PathResult ==
    \A k \in 1 .. Len(args) :
        LET comps == SplitPath(args[k])
            n == Len(comps)
        IN  Returned(k) =>
            /\ (n >= 1 /\ Reached(comps, n - 1) /\ Named(comps, n).type = "file")
               => /\ Len(out[k]) = 1
                  /\ IsEntryLine(out[k][1])
                  /\ out[k][1].name = comps[n]
                  /\ out[k][1].offs = Named(comps, n).offs
                  /\ out[k][1].attrs = Named(comps, n).attrs
            /\ \A i \in 1 .. n :
                  (Reached(comps, i - 1) /\ Named(comps, i).type = "none")
                  => out[k] = <<[error |-> PrefixPath(comps, i)]>>

\* C7's case: "/A/B/file.txt" has printed the entry of file.txt, found at
\* its long-name slot in cluster 3, and "/A/missing" the error for
\* "/A/missing"
C7_Witness ==
    /\ args = <<<<47, 65, 47, 66, 47, 102, 105, 108, 101, 46, 116, 120, 116>>,
                <<47, 65, 47, 109, 105, 115, 115, 105, 110, 103>>>>
    /\ pc = "paths"
    /\ Len(out[1]) = 1
    /\ IsEntryLine(out[1][1])
    /\ out[1][1].name = FileTxt
    /\ out[1][1].offs = 1536
    /\ out[2] = <<[error |-> <<47, 65, 47, 109, 105, 115, 115, 105, 110, 103>>]>>

\* C9: every chain walk comes to an end, returning or raising.
C9_WalkCompletes == <>(gc.pc \notin {"start", "walk"})

\* C11: for a File or Dir entry the walk is accepted (it gets past the checks
\* on the entry, to the loop or to its return) only when the first cluster is
\* in [2, 0xFFF8) or size = 0 and the first cluster is 0: the first cluster
\* 0xFFF8, 1, or 0 with a size above 0 ends in an error and yields no chain;
\* and the accepted entry of size 0 and cluster 0 yields the empty chain.
C11_Precondition ==
    gc.de.type \in {"file", "dir"}
    => /\ gc.pc \in {"walk", "done"}
          => \/ gc.de.cluster >= 2 /\ gc.de.cluster < 65528
             \/ gc.de.size = U32(0) /\ gc.de.cluster = 0
       /\ (gc.pc = "done" /\ gc.de.size = U32(0) /\ gc.de.cluster = 0)
          => gc.clist = <<>>

\* the fields of the boot sector, read off the device
RawU16(o) == DevByte(dev, o) + 256 * DevByte(dev, o + 1)
RawMagic == RawU16(510)
RawBps == RawU16(11)
RawSpc == DevByte(dev, 13)

\* C12: for a device with a 512-byte boot sector the boot succeeds iff the
\* signature is 0xAA55 and bytes-per-sector is 256, 512 or 2048; when it
\* fails the run has ended there, with no directory cached, read or listed;
\* when it succeeds, c2offs - c0offs = 2 * spc * bps.
C12_BootValidation ==
    (pc # "boot" /\ dev.len >= 512)
    => /\ br.err = "" <=> (RawMagic = 43605 /\ RawBps \in {256, 512, 2048})
       /\ br.err # "" => /\ pc = br.err
                         /\ dir_cache = NoCache
                         /\ args = <<>> /\ out = <<>> /\ walks = <<>>
       /\ br.err = "" => /\ br.c2offs - br.c0offs = 2 * RawSpc * RawBps
                         /\ <<SEP>> \in DOMAIN dir_cache

\* C12's case: a boot sector with 2048-byte sectors and 128 sectors per
\* cluster has been accepted, with c2offs - c0offs = 2 * 128 * 2048, and the
\* root directory listed
C12_Witness ==
    /\ dev.len >= 512
    /\ br.err = ""
    /\ RawMagic = 43605 /\ RawBps = 2048 /\ RawSpc = 128
    /\ br.c2offs - br.c0offs = 524288
    /\ Len(args) = 1

\* the blocks (positions in blist) that the range [pos, pos + size) touches
BlocksTouched(ch, pos, size) ==
    IF size = 0 THEN {} ELSE (pos \div ch.bsize) .. ((pos + size - 1) \div ch.bsize)

\* C13: every bounded read that read(pos, size) has issued covers bytes of
\* one block only (it ends at or before the end of the block that holds its
\* start), has at least one byte, and starts where the one before it ended;
\* a read that has returned its size bytes has issued at least one bounded
\* read per block its range touches, one starting at each block boundary
\* inside the range.
C13_ReadDecomposition ==
    /\ \A k \in 1 .. Len(rd.log) :
         /\ rd.log[k].n >= 1
         /\ rd.log[k].pos \div chain.bsize
            = (rd.log[k].pos + rd.log[k].n - 1) \div chain.bsize
         /\ rd.log[k].n <= chain.bsize - (rd.log[k].pos % chain.bsize)
         /\ rd.log[k].pos = (IF k = 1 THEN rd.pos
                             ELSE rd.log[k - 1].pos + rd.log[k - 1].n)
    /\ rd.pc = "done"
       => /\ Len(rd.log) >= Cardinality(BlocksTouched(chain, rd.pos, rd.size))
          /\ \A n \in BlocksTouched(chain, rd.pos, rd.size) :
               n * chain.bsize > rd.pos
               => \E k \in 1 .. Len(rd.log) : rd.log[k].pos = n * chain.bsize

\* C13's case: the read of 600 bytes at 400 over blocks of 512 bytes has
\* returned after two bounded reads, of 112 bytes at 400 and of 488 at 512
C13_Witness ==
    /\ rd.pc = "done"
    /\ chain.bsize = 512
    /\ rd.log = <<[pos |-> 400, n |-> 112], [pos |-> 512, n |-> 488]>>

\* the 32 bytes of slot k of the root directory
RawSlot(k) == [j \in 1 .. 32 |-> SlotByte(k, j - 1)]

\* the slot of the root directory that entry e comes from
SlotOf(e) == (e.ofs - br.rd_offs) \div 32

\* the live long-name slots scanned since the last terminal slot before
\* slot k
Pending(k) == {j \in 0 .. k - 1 : SamePending(j, k - 1) /\ IsLiveLfnSlot(j)}

\* the sequence index of long-name slot j
LfnIndex(j) == IF BitSet(SlotByte(j, 0), 64) THEN SlotByte(j, 0) - 64 ELSE SlotByte(j, 0)

\* the fragments of the slots in P by index, the last slot of an index
FragmentsOf(P) ==
    [x \in {LfnIndex(j) : j \in P} |->
        LET last == CHOOSE j \in P : /\ LfnIndex(j) = x
                                     /\ \A m \in P : LfnIndex(m) = x => m <= j
        IN  LfnBytes(RawSlot(last))]

\* the 8.3 name of slot k
RawShortName(k) ==
    ShortName([nam |-> SubSeq(RawSlot(k), 1, 8), ext |-> SubSeq(RawSlot(k), 9, 11)])

\* C14: after every terminal slot (a scanned slot whose attribute byte is
\* not 0x0F) the accumulator is empty; a live entry has the long name of the
\* live long-name slots scanned since the last terminal slot before it, and
\* its 8.3 short name when there are none.
C14_AccumulatorReset ==
    /\ (gd.pc \in {"scan", "done"} /\ gd.i >= 1 /\ ~IsLfnSlot(gd.i - 1))
       => /\ gd.cur_lfn_parts = <<>>
          /\ gd.cur_lfn_maxnum = None
          /\ gd.cur_lfn_cksum = None
          /\ gd.cur_lfn_offs = None
    /\ \A n \in 1 .. Len(gd.de_list) :
         LET e == gd.de_list[n]
             k == SlotOf(e)
         IN  e.type \in {"file", "dir"}
             => IF Pending(k) = {}
                THEN e.name = RawShortName(k)
                ELSE LET parts == FragmentsOf(Pending(k))
                     IN  e.name = DecodeName(JoinParts(parts, DOMAIN parts), 0)

\* C14's case: a live long-name slot, then a deleted file, then a live file:
\* the file is listed under its short name A.TXT
C14_Witness ==
    /\ gd.pc = "done"
    /\ IsLiveLfnSlot(0)
    /\ Len(gd.de_list) = 2
    /\ gd.de_list[1].type = "delf" /\ SlotOf(gd.de_list[1]) = 1
    /\ gd.de_list[2].type = "file" /\ SlotOf(gd.de_list[2]) = 2
    /\ gd.de_list[2].name = <<65, 46, 84, 88, 84>>
    /\ gd.cur_lfn_parts = <<>>

\* the n-th slot of the root directory that is no long-name slot
NthTerminal(n) ==
    CHOOSE k \in 0 .. MaxSlots - 1 :
        /\ ~IsLfnSlot(k)
        /\ Cardinality({j \in 0 .. k - 1 : ~IsLfnSlot(j)}) = n - 1

\* the least element of a set of numbers
MinOf(S) == CHOOSE x \in S : \A y \in S : x <= y

\* C15: the n-th returned entry comes from the n-th slot that is no
\* long-name slot.  A live entry with a long name reports the device offset
\* of the first live long-name slot scanned since the last terminal slot
\* (whichever slot has the 0x40 flag, and never a deleted long-name slot);
\* every other returned entry reports the device offset of its own slot.
\* The listing prints the reported offset.
C15_ReportedOffset ==
    /\ \A n \in 1 .. Len(gd.de_list) :
         LET e == gd.de_list[n]
             k == NthTerminal(n)
         IN  /\ e.ofs = br.rd_offs + 32 * k
             /\ e.offs = IF e.type \in {"file", "dir"} /\ Pending(k) # {}
                         THEN br.rd_offs + 32 * MinOf(Pending(k))
                         ELSE br.rd_offs + 32 * k
    /\ pc = "listed"
       => \A m \in 1 .. Len(out[1]) :
            \E n \in 1 .. Len(gd.de_list) :
                /\ gd.de_list[n].type \in {"file", "dir", "vol"}
                /\ gd.de_list[n].name = out[1][m].name
                /\ gd.de_list[n].offs = out[1][m].offs

\* C15's case: the fragment with index 1, the fragment with index 2 and the
\* 0x40 flag, then a live file: the file is listed at the offset of the
\* first slot, not at that of the flagged one or its own
C15_Witness ==
    /\ pc = "listed"
    /\ IsLfnSlot(0) /\ SlotByte(0, 0) = 1
    /\ IsLfnSlot(1) /\ SlotByte(1, 0) = 66
    /\ Len(gd.de_list) = 1
    /\ gd.de_list[1].type = "file"
    /\ gd.de_list[1].ofs = br.rd_offs + 64
    /\ gd.de_list[1].offs = br.rd_offs
    /\ out[1][1].offs = br.rd_offs

\* the kind of a slot that is no long-name slot, by the claim's order
KindOf(k) ==
    IF SlotByte(k, 11) = 8 THEN "vol"
    ELSE IF SlotByte(k, 0) = 229
         THEN (IF BitSet(SlotByte(k, 11), 16) THEN "deld" ELSE "delf")
         ELSE (IF BitSet(SlotByte(k, 11), 16) THEN "dir" ELSE "file")

\* C16: every scanned slot gets one kind.  A slot with the attribute byte
\* 0x0F is a long-name fragment: it is not returned, and it joins the
\* pending fragments unless its first byte is 0xE5.  Any other slot is
\* returned once, as VolumeLabel when the attribute byte is 0x08 (a first
\* byte 0xE5 or not), else as deleted-dir or deleted-file when the first
\* byte is 0xE5, else as Dir or File, by the bit 0x10.
C16_SlotKinds ==
    gd.pc \in {"scan", "done"}
    => /\ Len(gd.de_list) = Cardinality({j \in 0 .. gd.i - 1 : ~IsLfnSlot(j)})
       /\ \A n \in 1 .. Len(gd.de_list) : gd.de_list[n].type = KindOf(NthTerminal(n))
       /\ DOMAIN gd.cur_lfn_parts = {LfnIndex(j) : j \in Pending(gd.i)}

\* C16's case: a volume label whose name starts 0xE5, a deleted directory
\* and a deleted long-name slot have been scanned
C16_Witness ==
    /\ gd.pc = "done"
    /\ SlotByte(0, 11) = 8 /\ SlotByte(0, 0) = 229
    /\ SlotByte(1, 11) = 16 /\ SlotByte(1, 0) = 229
    /\ IsLfnSlot(2) /\ SlotByte(2, 0) = 229
    /\ gd.i = 3
    /\ Len(gd.de_list) = 2
    /\ gd.de_list[1].type = "vol"
    /\ gd.de_list[2].type = "deld"
    /\ gd.cur_lfn_parts = <<>>

\* long-name slot j has the 0x40 flag
IsFlagged(j) == BitSet(SlotByte(j, 0), 64)

\* C17: a live entry with a long name has it from fragments whose indices
\* are exactly 1 .. max, max the index of a slot of the pending name that
\* has the 0x40 flag: no gap, and no index above the maximum.
C17_IndicesComplete ==
    \A n \in 1 .. Len(gd.de_list) :
        LET e == gd.de_list[n]
            P == Pending(SlotOf(e))
        IN  (e.type \in {"file", "dir"} /\ P # {})
            => \E j \in P : /\ IsFlagged(j)
                            /\ {LfnIndex(m) : m \in P} = 1 .. LfnIndex(j)

\* C18: for an accepted geometry with n_fats >= 1 and spf >= 1 the regions
\* are in order and disjoint: each FAT i, [fatoffs[i], fatoffs[i] + spf*bps),
\* starts at or after rsvd_sects*bps and ends at or before rd_offs, two FATs
\* do not overlap, and the root directory ends at or before c2offs; so the
\* FAT that get_clist reads overlaps neither the root directory nor
\* another FAT.
C18_RegionsDisjoint ==
    (br.err = "" /\ br.n_fats >= 1 /\ br.spf >= 1)
    => LET fatlen == br.spf * br.bps
       IN  /\ \A i \in 1 .. br.n_fats :
                /\ br.fatoffs[i] >= br.rsvd_sects * br.bps
                /\ br.fatoffs[i] + fatlen <= br.rd_offs
           /\ \A i, j \in 1 .. br.n_fats :
                i < j => br.fatoffs[i] + fatlen <= br.fatoffs[j]
           /\ br.rd_offs + br.rdents * 32 <= br.c2offs
           /\ Fat1BChain(br).boffs + BChain_len(Fat1BChain(br)) <= br.rd_offs

\* the cache in a state: once the boot has succeeded the root key is there
\* with the root BChain built at start-up, and every other key is the path
\* of a Dir entry matched in the directory of its parent path, itself a key,
\* with the BChain of that entry's clusters
CacheInv ==
    br.err = ""
    => /\ <<47>> \in DOMAIN dir_cache
       /\ dir_cache[<<47>>] = BChain(<<0>>, br.rdents * 32, br.rd_offs)
       /\ \A K \in DOMAIN dir_cache \ {<<47>>} :
            LET comps == SplitPath(K)
                n == Len(comps)
            IN  /\ n >= 1
                /\ PrefixPath(comps, n) = K
                /\ PrefixPath(comps, n - 1) \in DOMAIN dir_cache
                /\ Named(comps, n).type = "dir"
                /\ dir_cache[K] = BChain(get_clist(br, dev, Named(comps, n)).clist,
                                         br.spc * br.bps, br.c0offs)

\* the cache in a step: no key goes and no BChain is replaced
CacheStep ==
    \A K \in DOMAIN dir_cache : K \in DOMAIN dir_cache' /\ dir_cache'[K] = dir_cache[K]

\* C19: over any sequence of ls_path calls, failing ones included, the root
\* key is always in the cache with the root BChain of start-up; a key is
\* never removed and its BChain never replaced (so a resolution that ends in
\* not-found leaves every earlier entry as it was); every other key was
\* inserted for a Dir entry matched in its parent directory, whose path is
\* a key.
C19_CacheInvariant == [](CacheInv) /\ [][CacheStep]_vars

\* C19's case: after "/A/B" and then the not-found "/A/missing" the cache
\* holds "/", "/A" and "/A/B", the latter with the chain 3 -> 5
C19_Witness ==
    /\ pc = "paths"
    /\ args = << <<47, 65, 47, 66>>, <<47, 65, 47, 109, 105, 115, 115, 105, 110, 103>> >>
    /\ out[2] = <<[error |-> <<47, 65, 47, 109, 105, 115, 115, 105, 110, 103>>]>>
    /\ DOMAIN dir_cache = {<<47>>, <<47, 65>>, <<47, 65, 47, 66>>}
    /\ dir_cache[<<47, 65, 47, 66>>].blist = <<3, 5>>

====
